---- MODULE Spec2Model ----
(***************************************************************************)
(* Model of the e-mail staging tool (src/email.py, class Tools): a single  *)
(* draft slot `prepared_email`, the three coroutines prepare_email,        *)
(* send_prepared_email and discard_prepared_email, the optional progress   *)
(* sink (__event_emitter__), the SMTP transport and a logical clock.       *)
(*                                                                         *)
(* A coroutine is a frame with a program counter named after the source    *)
(* line it is about to execute.  A frame runs without interruption from    *)
(* one `await __event_emitter__(...)` to the next; `running` is the frame  *)
(* that holds the event loop (0 when every frame is suspended or idle).    *)
(*                                                                         *)
(* Texts: recipients are sequences of one-character strings (the code      *)
(* works on them character by character), bodies are sequences of tokens   *)
(* (words, markup tags, markup entities), subjects and signatures are      *)
(* opaque strings.                                                         *)
(*                                                                         *)
(* `hist` is a history variable, read by no action: the draft the last     *)
(* prepare_email stored (staged), whether it replaced a draft with another *)
(* subject (overwrote),                                                    *)
(* whether a send of that draft failed at the transport (failed) or was    *)
(* refused for the missing password (refused), what assigned the slot last *)
(* (slot), and whether the last discard found the slot empty.              *)
(***************************************************************************)
EXTENDS Integers, Sequences, FiniteSets, TLC

VARIABLES prepared_email, valves, frame, running, smtp, clock, hist

vars == <<prepared_email, valves, frame, running, smtp, clock, hist>>

(***************************************************************************)
(* Bounds of the model.                                                    *)
(***************************************************************************)
MaxLen == 3          \* longest recipients string of the normalisation runs
MaxConnects == 2     \* connections the transport sees in one run
MaxSegments == 2     \* longest translations array of a reply

None == [none |-> TRUE]        \* Python's None
Str(s) == [str |-> s]          \* a Python str where None is possible too
\* mutant of Truthy: an `is not None` test, the empty str passes
TruthyNotNone(v) == v # None
Truthy(v) == v # None /\ v # Str("")   \* bool(v) of a str or None

Calls == {1, 2}      \* coroutine frames
SeqCalls == {1}      \* one caller at a time (spec.md section 5)

(***************************************************************************)
(* Character and token level text functions of the Python library.         *)
(***************************************************************************)
RECURSIVE LStrip(_, _)
LStrip(s, chars) ==
    IF s # <<>> /\ Head(s) \in chars THEN LStrip(Tail(s), chars) ELSE s

RECURSIVE RStrip(_, _)
RStrip(s, chars) ==
    IF s # <<>> /\ s[Len(s)] \in chars
    THEN RStrip(SubSeq(s, 1, Len(s) - 1), chars)
    ELSE s

\* str.strip(chars): drops every leading and trailing character in chars
Strip(s, chars) == RStrip(LStrip(s, chars), chars)

\* str.replace(ch, ""): drops every occurrence of the character ch
RECURSIVE ReplaceWithEmpty(_, _)
ReplaceWithEmpty(s, ch) ==
    IF s = <<>> THEN <<>>
    ELSE IF Head(s) = ch THEN ReplaceWithEmpty(Tail(s), ch)
    ELSE <<Head(s)>> \o ReplaceWithEmpty(Tail(s), ch)

\* str.split(','): the pieces between commas, empty pieces included
RECURSIVE SplitComma(_)
SplitComma(s) ==
    IF \A i \in 1..Len(s) : s[i] # ","
    THEN <<s>>
    ELSE LET k == CHOOSE i \in 1..Len(s) :
                      s[i] = "," /\ \A j \in 1..(i - 1) : s[j] # ","
         IN  <<SubSeq(s, 1, k - 1)>> \o SplitComma(SubSeq(s, k + 1, Len(s)))

\* html.unescape on one token: a markup entity becomes its character
UnescapeToken(t) ==
    CASE t = "&amp;"  -> "&"
      [] t = "&lt;"   -> "<"
      [] t = "&gt;"   -> ">"
      [] t = "&quot;" -> "\""
      [] OTHER        -> t

\* html.unescape: every entity of the text is decoded, the rest is kept
unescape(body) == [i \in 1..Len(body) |-> UnescapeToken(body[i])]

\* line 72 mutant: the quotes are removed before the ends are stripped
NormalizeRecipientsQuotesFirst(recipients) ==
    Strip(ReplaceWithEmpty(ReplaceWithEmpty(recipients, "'"), "\""),
          {"[", "]"})

\* line 72: recipients.strip("[]").replace("'", "").replace('"', '')
NormalizeRecipients(recipients) ==
    ReplaceWithEmpty(ReplaceWithEmpty(Strip(recipients, {"[", "]"}), "'"),
                     "\"")

(***************************************************************************)
(* Inputs.                                                                 *)
(***************************************************************************)
RecipientPlain == <<"a">>
RecipientList == <<"[", "'", "a", "'", ",", " ", "'", "b", "'", "]">>

\* the (subject, body, recipients) triples a caller passes to prepare_email
PrepareArgs ==
    { [subject |-> "Hi",  body |-> <<"Hello", "<br>", "World">>,
       recipients |-> RecipientPlain],
      [subject |-> "Re",  body |-> <<"A", "&amp;", "B">>,
       recipients |-> RecipientList] }

RecipientAlphabet == {"[", "]", "'", "\"", ",", "a"}

RECURSIVE StringsUpTo(_)
StringsUpTo(n) ==
    IF n = 0 THEN {<<>>}
    ELSE LET shorter == StringsUpTo(n - 1)
         IN  shorter \cup
             {Append(s, ch) : s \in {t \in shorter : Len(t) = n - 1},
                              ch \in RecipientAlphabet}

\* every recipients string up to MaxLen characters, and the stringified list
AnyRecipients == StringsUpTo(MaxLen) \cup {RecipientList}

Signatures == {"", "Sig"}           \* Valves.EMAIL_SIGNATURE
Passwords == {None, Str(""), Str("pw")}   \* Valves.PASSWORD
Emitters == {"none", "ok", "flaky"} \* no sink, a sink, a sink that may raise

(***************************************************************************)
(* Values built by the code.                                               *)
(***************************************************************************)
NoExc == ""          \* no exception

\* status_object(description, status, done), lines 59-67 and 104-112; the
\* description is a fixed text and the value interpolated into it
status_object(text, arg, status, done) ==
    [type |-> "status",
     data |-> [status |-> status,
               description |-> [text |-> text, arg |-> arg],
               done |-> done]]

DigitChar == <<"0", "1", "2", "3", "4", "5", "6", "7", "8", "9">>

Pad2(n) == <<DigitChar[(n \div 10) + 1], DigitChar[(n % 10) + 1]>>

\* the day the run starts on, at 00:00:00 local time
StartOfRun == [year |-> <<"2", "0", "2", "4">>, month |-> 1, day |-> 1]

\* datetime.strftime("%Y-%m-%d %H:%M:%S UTC") of `t` seconds into the run
strftime(t) ==
    StartOfRun.year \o <<"-">> \o Pad2(StartOfRun.month) \o <<"-">>
      \o Pad2(StartOfRun.day + (t \div 86400)) \o <<" ">>
      \o Pad2((t % 86400) \div 3600) \o <<":">>
      \o Pad2((t % 3600) \div 60) \o <<":">>
      \o Pad2(t % 60) \o <<" ", "U", "T", "C">>

\* lines 75-80: the dict stored in the slot
DraftEmail(subject, body, signature, recipients) ==
    [subject |-> subject, body |-> body,
     signature |-> signature, recipients |-> recipients]

\* lines 134-137 mutant: the signature is read from the valves at send time
PlainTextSignatureAtSend(draft) ==
    IF valves.EMAIL_SIGNATURE # ""
    THEN unescape(draft.body) \o <<"\n\n", valves.EMAIL_SIGNATURE>>
    ELSE unescape(draft.body)

\* lines 134-137: the plain-text version
PlainText(draft) ==
    IF draft.signature # ""
    THEN unescape(draft.body) \o <<"\n\n", draft.signature>>
    ELSE unescape(draft.body)

\* lines 139-142: the HTML version
HtmlContent(draft) ==
    IF draft.signature # ""
    THEN draft.body \o <<"<br><br>", draft.signature>>
    ELSE draft.body

\* lines 144-146 mutant: the HTML part is attached before the plain one
BuildMessageHtmlFirst(draft, from_email) ==
    [Subject |-> draft.subject,
     From |-> from_email,
     To |-> draft.recipients,
     parts |-> <<[subtype |-> "html", payload |-> HtmlContent(draft)],
                 [subtype |-> "plain", payload |-> PlainText(draft)]>>]

\* lines 129-146: the MIMEMultipart('alternative') message
BuildMessage(draft, from_email) ==
    [Subject |-> draft.subject,
     From |-> from_email,
     To |-> draft.recipients,
     parts |-> <<[subtype |-> "plain", payload |-> PlainText(draft)],
                 [subtype |-> "html", payload |-> HtmlContent(draft)]>>]

\* the return values: which text it is and the values interpolated into it
PreparedText(recipients, subject, body) ==
    [kind |-> "prepared", fields |-> <<recipients, subject, body>>]  \* 85-95
NoEmailText == [kind |-> "no_email", fields |-> <<>>]               \* 117
NoPasswordText == [kind |-> "no_password", fields |-> <<>>]         \* 122
SentText == [kind |-> "sent", fields |-> <<>>]                      \* 162-166
ErrorText(e) == [kind |-> "error", fields |-> <<e>>]                \* 170
DiscardedText == [kind |-> "discarded", fields |-> <<>>]            \* 187-191

(***************************************************************************)
(* Frames of the coroutines.                                               *)
(***************************************************************************)
IdleFrame ==
    [op |-> "none", pc |-> "idle", emitter |-> "none", args |-> None,
     events |-> <<>>, msg |-> None, e |-> NoExc, current_time |-> <<>>,
     data |-> None, response |-> None,
     result |-> None, raised |-> NoExc]

NewFrame(op, pc, emitter, args) ==
    [IdleFrame EXCEPT !.op = op, !.pc = pc, !.emitter = emitter,
                      !.args = args]

\* a frame takes a step when it holds the event loop or the loop is free
CanRun(c) == running = c \/ running = 0

\* a call starts on a frame that is not in use, when the loop is free
CanCall(c) == running = 0 /\ frame[c].pc \in {"idle", "done"}

\* `if __event_emitter__: await __event_emitter__(ev)`: nothing happens
\* without a sink; a sink takes the notification or raises
EmitOutcomes(f) ==
    CASE f.emitter = "none"  -> {"skipped"}
      [] f.emitter = "ok"    -> {"ok"}
      [] f.emitter = "flaky" -> {"ok", "raise"}

Emitted(f, ev, o) ==
    IF o = "skipped" THEN f ELSE [f EXCEPT !.events = Append(@, ev)]

\* the await gives up the event loop when there is a sink
AfterAwait(c, o) == IF o = "skipped" THEN c ELSE 0

\* the coroutine returns `text`
Return(f, text) == [f EXCEPT !.pc = "done", !.result = text]

\* an exception leaves the coroutine
Raise(f, exc) == [f EXCEPT !.pc = "done", !.raised = exc]

Init ==
    /\ prepared_email = None                              \* line 46
    /\ valves = [FROM_EMAIL |-> "someone@example.com",
                 PASSWORD |-> None,
                 EMAIL_SIGNATURE |-> ""]                  \* lines 23-45
    /\ frame = [c \in Calls |-> IdleFrame]
    /\ running = 0
    /\ smtp = [connects |-> 0, accepted |-> 0, last |-> None,
               accepted_at |-> 0]
    /\ clock = 0
    /\ hist = [staged |-> None, overwrote |-> FALSE, failed |-> FALSE,
               refused |-> FALSE, slot |-> "init", found_empty |-> FALSE]

(***************************************************************************)
(* The host changes the configuration (Valves) between two calls.          *)
(***************************************************************************)
SetValves ==
    /\ running = 0
    /\ \A c \in Calls : frame[c].pc \in {"idle", "done"}
    /\ \E p \in Passwords, s \in Signatures :
           /\ valves' = [valves EXCEPT !.PASSWORD = p, !.EMAIL_SIGNATURE = s]
           /\ valves' # valves
    /\ UNCHANGED <<prepared_email, frame, running, smtp, clock, hist>>

(***************************************************************************)
(* prepare_email, lines 48-95.                                             *)
(***************************************************************************)
CallPrepare(c) ==
    /\ CanCall(c)
    /\ \E a \in PrepareArgs, em \in Emitters :
           frame' = [frame EXCEPT ![c] = NewFrame("prepare", "p69", em, a)]
    /\ running' = c
    /\ UNCHANGED <<prepared_email, valves, smtp, clock, hist>>

\* the same call with any recipients string, for the normalisation runs
CallPrepareAny(c) ==
    /\ CanCall(c)
    /\ frame[c].pc = "idle"       \* one call, on a new instance
    /\ \E r \in AnyRecipients, em \in {"none", "ok"} :
           frame' = [frame EXCEPT ![c] =
                       NewFrame("prepare", "p69", em,
                                [subject |-> "Hi", body |-> <<"Hello">>,
                                 recipients |-> r])]
    /\ running' = c
    /\ UNCHANGED <<prepared_email, valves, smtp, clock, hist>>

\* lines 69-70
PrepareBegin(c) ==
    /\ CanRun(c)
    /\ frame[c].pc = "p69"
    /\ \E o \in EmitOutcomes(frame[c]) :
         LET f == Emitted(frame[c],
                          status_object("Preparing Email", <<>>,
                                        "in_progress", FALSE), o)
         IN  /\ frame' = [frame EXCEPT ![c] =
                            IF o = "raise" THEN Raise(f, "SinkError")
                            ELSE [f EXCEPT !.pc = "p72"]]
             /\ running' = AfterAwait(c, o)
    /\ UNCHANGED <<prepared_email, valves, smtp, clock, hist>>

\* lines 75-80 mutant: a staged draft is kept, the new one is dropped
PrepareStoredDraftKeepsOld(f) ==
    IF prepared_email # None
    THEN prepared_email
    ELSE DraftEmail(f.args.subject, f.args.body, valves.EMAIL_SIGNATURE,
                    NormalizeRecipients(f.args.recipients))

\* lines 72-80: the draft that prepare_email stores
PrepareStoredDraft(f) ==
    DraftEmail(f.args.subject, f.args.body, valves.EMAIL_SIGNATURE,
               NormalizeRecipients(f.args.recipients))

\* lines 72-83
PrepareStore(c) ==
    /\ CanRun(c)
    /\ frame[c].pc = "p72"
    /\ prepared_email' = PrepareStoredDraft(frame[c])
    /\ hist' = [hist EXCEPT !.staged = prepared_email',
                            !.overwrote =
                                /\ prepared_email # None
                                /\ prepared_email.subject
                                     # prepared_email'.subject,
                            !.failed = FALSE, !.refused = FALSE,
                            !.slot = "prepare", !.found_empty = FALSE]
    /\ \E o \in EmitOutcomes(frame[c]) :
         LET f == Emitted(frame[c],
                          status_object("Email Prepared", <<>>,
                                        "complete", TRUE), o)
         IN  /\ frame' = [frame EXCEPT ![c] =
                            IF o = "raise" THEN Raise(f, "SinkError")
                            ELSE [f EXCEPT !.pc = "p85"]]
             /\ running' = AfterAwait(c, o)
    /\ UNCHANGED <<valves, smtp, clock>>

\* lines 85-95
PrepareReturn(c) ==
    /\ CanRun(c)
    /\ frame[c].pc = "p85"
    /\ frame' = [frame EXCEPT ![c] =
                   Return(@, PreparedText(
                                NormalizeRecipients(@.args.recipients),
                                @.args.subject, @.args.body))]
    /\ running' = 0
    /\ UNCHANGED <<prepared_email, valves, smtp, clock, hist>>

(***************************************************************************)
(* send_prepared_email, lines 97-170.                                      *)
(***************************************************************************)
CallSend(c) ==
    /\ CanCall(c)
    /\ smtp.connects < MaxConnects
    /\ \E em \in Emitters :
           frame' = [frame EXCEPT ![c] = NewFrame("send", "s114", em, None)]
    /\ running' = c
    /\ UNCHANGED <<prepared_email, valves, smtp, clock, hist>>

\* lines 114-126 mutant: the credential is checked before the draft
SendPreconditionCredentialFirst ==
    CASE ~Truthy(valves.PASSWORD) -> "no_password"
      [] prepared_email = None    -> "no_email"
      [] OTHER                    -> "proceed"

\* lines 114 and 119: the precondition that refuses the call, if any
SendPrecondition ==
    CASE prepared_email = None    -> "no_email"
      [] ~Truthy(valves.PASSWORD) -> "no_password"
      [] OTHER                    -> "proceed"

\* lines 114-126: the two preconditions and the first notification
SendCheck(c) ==
    /\ CanRun(c)
    /\ frame[c].pc = "s114"
    /\ \E o \in EmitOutcomes(frame[c]) :
         /\ CASE SendPrecondition = "no_email" ->
                  LET f == Emitted(frame[c],
                             status_object("Error: No email prepared", <<>>,
                                           "error", TRUE), o)
                  IN  frame' = [frame EXCEPT ![c] =
                                  IF o = "raise" THEN Raise(f, "SinkError")
                                  ELSE [f EXCEPT !.pc = "s117"]]
              [] SendPrecondition = "no_password" ->
                  LET f == Emitted(frame[c],
                             status_object("Error: Email password is not set",
                                           <<>>, "error", TRUE), o)
                  IN  frame' = [frame EXCEPT ![c] =
                                  IF o = "raise" THEN Raise(f, "SinkError")
                                  ELSE [f EXCEPT !.pc = "s122"]]
              [] OTHER ->
                  LET f == Emitted(frame[c],
                             status_object("Connecting to SMTP server", <<>>,
                                           "in_progress", FALSE), o)
                  IN  frame' = [frame EXCEPT ![c] =
                                  IF o = "raise"   \* inside the try block
                                  THEN [f EXCEPT !.pc = "s168",
                                                 !.e = "SinkError"]
                                  ELSE [f EXCEPT !.pc = "s129"]]
         /\ running' = AfterAwait(c, o)
    /\ hist' = [hist EXCEPT !.refused =
                   @ \/ SendPrecondition = "no_password"]
    /\ UNCHANGED <<prepared_email, valves, smtp, clock>>

\* line 117
SendReturnNoEmail(c) ==
    /\ CanRun(c)
    /\ frame[c].pc = "s117"
    /\ frame' = [frame EXCEPT ![c] = Return(@, NoEmailText)]
    /\ running' = 0
    /\ UNCHANGED <<prepared_email, valves, smtp, clock, hist>>

\* line 122
SendReturnNoPassword(c) ==
    /\ CanRun(c)
    /\ frame[c].pc = "s122"
    /\ frame' = [frame EXCEPT ![c] = Return(@, NoPasswordText)]
    /\ running' = 0
    /\ UNCHANGED <<prepared_email, valves, smtp, clock, hist>>

\* lines 129-146: the message is built from the slot; subscripting None
\* (the slot was emptied while this frame was suspended) is a TypeError
SendBuild(c) ==
    /\ CanRun(c)
    /\ frame[c].pc = "s129"
    /\ frame' = [frame EXCEPT ![c] =
                   IF prepared_email = None
                   THEN [@ EXCEPT !.pc = "s168", !.e = "TypeError"]
                   ELSE [@ EXCEPT !.pc = "s148",
                                  !.msg = BuildMessage(prepared_email,
                                                       valves.FROM_EMAIL)]]
    /\ running' = c
    /\ UNCHANGED <<prepared_email, valves, smtp, clock, hist>>

\* what the relay does with a connection: it refuses it, rejects the
\* login, or accepts both
ConnectOutcomes == {"connect_fails", "login_fails", "ok"}

\* what the relay does with a submitted message: it rejects it, accepts it,
\* or accepts it and then answers QUIT with an error (SMTP.__exit__)
SubmitOutcomes == {"sendmail_fails", "ok", "quit_fails"}

\* a send of the staged draft failed at the transport
FailedSend(h) == [h EXCEPT !.failed = TRUE]

\* the clock is a logical one: a connection to the relay takes one tick
Elapse == 1

\* lines 148-152: SMTP_SSL(...), server.login(...), the second notification
SendConnect(c) ==
    /\ CanRun(c)
    /\ frame[c].pc = "s148"
    /\ smtp' = [smtp EXCEPT !.connects = @ + 1]
    /\ clock' = clock + Elapse
    /\ \E t \in ConnectOutcomes :
         CASE t = "connect_fails" ->
                /\ frame' = [frame EXCEPT ![c] =
                               [@ EXCEPT !.pc = "s168",
                                         !.e = "ConnectionError"]]
                /\ hist' = FailedSend(hist)
                /\ running' = c
           [] t = "login_fails" ->
                /\ frame' = [frame EXCEPT ![c] =
                               [@ EXCEPT !.pc = "s168",
                                         !.e = "SMTPAuthenticationError"]]
                /\ hist' = FailedSend(hist)
                /\ running' = c
           [] OTHER ->
                /\ \E o \in EmitOutcomes(frame[c]) :
                     LET f == Emitted(frame[c],
                                status_object("Sending email", <<>>,
                                              "in_progress", FALSE), o)
                     IN  /\ frame' = [frame EXCEPT ![c] =
                                        IF o = "raise"
                                        THEN [f EXCEPT !.pc = "s168",
                                                       !.e = "SinkError"]
                                        ELSE [f EXCEPT !.pc = "s154"]]
                         /\ running' = AfterAwait(c, o)
                /\ hist' = hist
    /\ UNCHANGED <<prepared_email, valves>>

\* line 154: the envelope handed to server.sendmail
Envelope(from_addr, recipients, msg) ==
    [from_addr |-> from_addr, to_addrs |-> SplitComma(recipients),
     msg |-> msg]

\* the relay accepts an envelope: it counts it and keeps the last one and
\* the time it took it
Accept(envelope) ==
    [smtp EXCEPT !.accepted = @ + 1, !.last = envelope,
                 !.accepted_at = clock]

\* lines 154-159: server.sendmail(...), the end of the `with` block, the
\* timestamp and the third notification
SendSubmit(c) ==
    /\ CanRun(c)
    /\ frame[c].pc = "s154"
    /\ IF prepared_email = None
       THEN /\ frame' = [frame EXCEPT ![c] =
                           [@ EXCEPT !.pc = "s168", !.e = "TypeError"]]
            /\ running' = c
            /\ UNCHANGED <<smtp, hist>>
       ELSE \E t \in SubmitOutcomes :
              /\ CASE t = "sendmail_fails" ->
                       /\ frame' = [frame EXCEPT ![c] =
                                      [@ EXCEPT !.pc = "s168",
                                                !.e = "SMTPRecipientsRefused"]]
                       /\ hist' = FailedSend(hist)
                       /\ running' = c
                       /\ smtp' = smtp
                   [] t = "quit_fails" ->
                       /\ smtp' = Accept(Envelope(valves.FROM_EMAIL,
                                                 prepared_email.recipients,
                                                 frame[c].msg))
                       /\ frame' = [frame EXCEPT ![c] =
                                      [@ EXCEPT !.pc = "s168",
                                                !.e = "SMTPResponseException"]]
                       /\ hist' = hist
                       /\ running' = c
                   [] OTHER ->
                       /\ smtp' = Accept(Envelope(valves.FROM_EMAIL,
                                                 prepared_email.recipients,
                                                 frame[c].msg))
                       /\ hist' = hist
                       /\ \E o \in EmitOutcomes(frame[c]) :
                            LET now == strftime(clock)
                                f == Emitted(
                                       [frame[c] EXCEPT !.current_time = now],
                                       status_object(
                                         "Email sent successfully at ", now,
                                         "complete", TRUE), o)
                            IN  /\ frame' = [frame EXCEPT ![c] =
                                               IF o = "raise"
                                               THEN [f EXCEPT !.pc = "s168",
                                                         !.e = "SinkError"]
                                               ELSE [f EXCEPT !.pc = "s161"]]
                                /\ running' = AfterAwait(c, o)
    /\ UNCHANGED <<prepared_email, valves, clock>>

\* lines 161-166 mutant: the slot is not cleared
SendClearKeepsDraft(c) ==
    /\ CanRun(c)
    /\ frame[c].pc = "s161"
    /\ hist' = [hist EXCEPT !.slot = "send", !.found_empty = FALSE]
    /\ frame' = [frame EXCEPT ![c] = Return(@, SentText)]
    /\ running' = 0
    /\ UNCHANGED <<prepared_email, valves, smtp, clock>>

\* lines 161-166
SendClear(c) ==
    /\ CanRun(c)
    /\ frame[c].pc = "s161"
    /\ prepared_email' = None
    /\ hist' = [hist EXCEPT !.slot = "send", !.found_empty = FALSE]
    /\ frame' = [frame EXCEPT ![c] = Return(@, SentText)]
    /\ running' = 0
    /\ UNCHANGED <<valves, smtp, clock>>

\* lines 167-169 mutant: the handler also clears the slot
SendExceptClearing(c) ==
    /\ CanRun(c)
    /\ frame[c].pc = "s168"
    /\ prepared_email' = None
    /\ \E o \in EmitOutcomes(frame[c]) :
         LET f == Emitted(frame[c],
                          status_object("Error: ", <<frame[c].e>>,
                                        "error", TRUE), o)
         IN  /\ frame' = [frame EXCEPT ![c] =
                            IF o = "raise" THEN Raise(f, "SinkError")
                            ELSE [f EXCEPT !.pc = "s170"]]
             /\ running' = AfterAwait(c, o)
    /\ UNCHANGED <<valves, smtp, clock, hist>>

\* lines 167-169: `except Exception as e` and the error notification
SendExcept(c) ==
    /\ CanRun(c)
    /\ frame[c].pc = "s168"
    /\ \E o \in EmitOutcomes(frame[c]) :
         LET f == Emitted(frame[c],
                          status_object("Error: ", <<frame[c].e>>,
                                        "error", TRUE), o)
         IN  /\ frame' = [frame EXCEPT ![c] =
                            IF o = "raise" THEN Raise(f, "SinkError")
                            ELSE [f EXCEPT !.pc = "s170"]]
             /\ running' = AfterAwait(c, o)
    /\ UNCHANGED <<prepared_email, valves, smtp, clock, hist>>

\* line 170
SendReturnError(c) ==
    /\ CanRun(c)
    /\ frame[c].pc = "s170"
    /\ frame' = [frame EXCEPT ![c] = Return(@, ErrorText(@.e))]
    /\ running' = 0
    /\ UNCHANGED <<prepared_email, valves, smtp, clock, hist>>

(***************************************************************************)
(* discard_prepared_email, lines 172-191.                                  *)
(***************************************************************************)
CallDiscard(c) ==
    /\ CanCall(c)
    /\ \E em \in Emitters :
           frame' = [frame EXCEPT ![c] = NewFrame("discard", "d179", em, None)]
    /\ running' = c
    /\ UNCHANGED <<prepared_email, valves, smtp, clock, hist>>

\* lines 179-180
DiscardBegin(c) ==
    /\ CanRun(c)
    /\ frame[c].pc = "d179"
    /\ \E o \in EmitOutcomes(frame[c]) :
         LET f == Emitted(frame[c],
                          status_object("Discarding prepared email", <<>>,
                                        "in_progress", FALSE), o)
         IN  /\ frame' = [frame EXCEPT ![c] =
                            IF o = "raise" THEN Raise(f, "SinkError")
                            ELSE [f EXCEPT !.pc = "d182"]]
             /\ running' = AfterAwait(c, o)
    /\ UNCHANGED <<prepared_email, valves, smtp, clock, hist>>

\* lines 182-185 mutant: the slot is not cleared
DiscardClearKeepsDraft(c) ==
    /\ CanRun(c)
    /\ frame[c].pc = "d182"
    /\ hist' = [hist EXCEPT !.slot = "discard",
                            !.found_empty = (prepared_email = None)]
    /\ \E o \in EmitOutcomes(frame[c]) :
         LET f == Emitted(frame[c],
                          status_object("Prepared email discarded", <<>>,
                                        "complete", TRUE), o)
         IN  /\ frame' = [frame EXCEPT ![c] =
                            IF o = "raise" THEN Raise(f, "SinkError")
                            ELSE [f EXCEPT !.pc = "d187"]]
             /\ running' = AfterAwait(c, o)
    /\ UNCHANGED <<prepared_email, valves, smtp, clock>>

\* lines 182-185
DiscardClear(c) ==
    /\ CanRun(c)
    /\ frame[c].pc = "d182"
    /\ prepared_email' = None
    /\ hist' = [hist EXCEPT !.slot = "discard",
                            !.found_empty = (prepared_email = None)]
    /\ \E o \in EmitOutcomes(frame[c]) :
         LET f == Emitted(frame[c],
                          status_object("Prepared email discarded", <<>>,
                                        "complete", TRUE), o)
         IN  /\ frame' = [frame EXCEPT ![c] =
                            IF o = "raise" THEN Raise(f, "SinkError")
                            ELSE [f EXCEPT !.pc = "d187"]]
             /\ running' = AfterAwait(c, o)
    /\ UNCHANGED <<valves, smtp, clock>>

\* lines 187-191 mutant: the "nothing staged" text of send is returned
DiscardReturnNothingStaged(c) ==
    /\ CanRun(c)
    /\ frame[c].pc = "d187"
    /\ frame' = [frame EXCEPT ![c] = Return(@, NoEmailText)]
    /\ running' = 0
    /\ UNCHANGED <<prepared_email, valves, smtp, clock, hist>>

\* lines 187-191
DiscardReturn(c) ==
    /\ CanRun(c)
    /\ frame[c].pc = "d187"
    /\ frame' = [frame EXCEPT ![c] = Return(@, DiscardedText)]
    /\ running' = 0
    /\ UNCHANGED <<prepared_email, valves, smtp, clock, hist>>

(***************************************************************************)
(* get_translation, src/deepl.py lines 20-38: a plain function, it runs    *)
(* from the call to the return without giving up the event loop.           *)
(***************************************************************************)
\* the (text, target_lang, api_key) triples a caller passes
TranslateArgs ==
    [text : {"Hello", "World", ""}, target_lang : {"DE", "FR"},
     api_key : {"key", ""}]

\* the translated segments of a reply
Segments == {[text |-> "Hallo"], [text |-> "Bonjour"]}

RECURSIVE SegmentsUpTo(_)
SegmentsUpTo(n) ==
    IF n = 0 THEN {<<>>}
    ELSE LET shorter == SegmentsUpTo(n - 1)
         IN  shorter \cup
             {Append(s, g) : s \in {t \in shorter : Len(t) = n - 1},
                             g \in Segments}

\* what urlopen and json.loads give: the request fails (URLError, or its
\* subclass HTTPError), the body is not JSON, or it is a JSON object
\* without or with a `translations` array
Replies ==
    {[kind |-> k, has_translations |-> FALSE, translations |-> <<>>] :
        k \in {"URLError", "HTTPError", "invalid_json", "json"}}
    \cup {[kind |-> "json", has_translations |-> TRUE, translations |-> t] :
            t \in SegmentsUpTo(MaxSegments)}

\* lines 31-34 mutant: the last segment is returned
GetTranslationResultLastSegment(reply) ==
    IF reply.has_translations /\ Len(reply.translations) > 0
    THEN Str(reply.translations[Len(reply.translations)].text)
    ELSE None

\* lines 31-34: the first segment's text, or None
GetTranslationResult(reply) ==
    IF reply.has_translations /\ Len(reply.translations) > 0
    THEN Str(reply.translations[1].text)
    ELSE None

CallGetTranslation(c) ==
    /\ CanCall(c)
    /\ \E a \in TranslateArgs :
           frame' = [frame EXCEPT ![c] =
                       NewFrame("get_translation", "g21", "none", a)]
    /\ running' = c
    /\ UNCHANGED <<prepared_email, valves, smtp, clock, hist>>

\* lines 21-26: the form-encoded request body
GetTranslationEncode(c) ==
    /\ CanRun(c)
    /\ frame[c].pc = "g21"
    /\ frame' = [frame EXCEPT ![c] =
                   [@ EXCEPT !.pc = "g28",
                             !.data = [auth_key |-> frame[c].args.api_key,
                                       text |-> frame[c].args.text,
                                       target_lang |->
                                          frame[c].args.target_lang]]]
    /\ running' = c
    /\ UNCHANGED <<prepared_email, valves, smtp, clock, hist>>

\* lines 28-38: urlopen, json.loads, the result; only URLError is caught
GetTranslationRequest(c) ==
    /\ CanRun(c)
    /\ frame[c].pc = "g28"
    /\ \E reply \in Replies :
         LET f == [frame[c] EXCEPT !.response = reply]
         IN  frame' = [frame EXCEPT ![c] =
                CASE reply.kind \in {"URLError", "HTTPError"} ->
                       Return([f EXCEPT !.e = reply.kind], None)
                  [] reply.kind = "invalid_json" ->
                       Raise(f, "JSONDecodeError")
                  [] OTHER ->
                       Return(f, GetTranslationResult(reply))]
    /\ running' = 0
    /\ UNCHANGED <<prepared_email, valves, smtp, clock, hist>>

(***************************************************************************)
(* Specifications.                                                         *)
(***************************************************************************)
Step(c) ==
    \/ CallPrepare(c)
    \/ PrepareBegin(c)
    \/ PrepareStore(c)
    \/ PrepareReturn(c)
    \/ CallSend(c)
    \/ SendCheck(c)
    \/ SendReturnNoEmail(c)
    \/ SendReturnNoPassword(c)
    \/ SendBuild(c)
    \/ SendConnect(c)
    \/ SendSubmit(c)
    \/ SendClear(c)
    \/ SendExcept(c)
    \/ SendReturnError(c)
    \/ CallDiscard(c)
    \/ DiscardBegin(c)
    \/ DiscardClear(c)
    \/ DiscardReturn(c)

\* one caller: every call runs to completion before the next one starts
Next ==
    \/ SetValves
    \/ \E c \in SeqCalls : Step(c)

Spec == Init /\ [][Next]_vars

\* prepare_email alone, called with every recipients string of the bound
NextNorm ==
    \E c \in SeqCalls :
       \/ CallPrepareAny(c)
       \/ PrepareBegin(c)
       \/ PrepareStore(c)
       \/ PrepareReturn(c)

SpecNorm == Init /\ [][NextNorm]_vars

\* two callers on one Tools object: one calls send_prepared_email, the other
\* prepare_email, and a call may start whenever the event loop is free,
\* also while the other caller's coroutine is suspended at an await
Sender == 1
Preparer == 2

NextConc ==
    \/ SetValves
    \/ CallPrepare(Preparer)
    \/ PrepareBegin(Preparer)
    \/ PrepareStore(Preparer)
    \/ PrepareReturn(Preparer)
    \/ CallSend(Sender)
    \/ SendCheck(Sender)
    \/ SendReturnNoEmail(Sender)
    \/ SendReturnNoPassword(Sender)
    \/ SendBuild(Sender)
    \/ SendConnect(Sender)
    \/ SendSubmit(Sender)
    \/ SendClear(Sender)
    \/ SendExcept(Sender)
    \/ SendReturnError(Sender)

SpecConc == Init /\ [][NextConc]_vars

\* get_translation alone, with every reply of the bound
NextTranslate ==
    \E c \in SeqCalls :
       \/ CallGetTranslation(c)
       \/ GetTranslationEncode(c)
       \/ GetTranslationRequest(c)

SpecTranslate == Init /\ [][NextTranslate]_vars

(***************************************************************************)
(* Properties.  They are stated for one caller at a time (Spec), and,      *)
(* where they speak of what a call returns, for calls made without a sink  *)
(* or with a sink that takes every notification; what a raising sink does  *)
(* to a call is the subject of C7.                                         *)
(***************************************************************************)
Returned(c) == frame[c].pc = "done" /\ frame[c].raised = NoExc

SinkWorks(c) == frame[c].emitter \in {"none", "ok"}

ResultKind(c) == IF frame[c].result = None THEN "" ELSE frame[c].result.kind

\* the failures of connecting, authenticating and submitting
TransportFailures ==
    {"ConnectionError", "SMTPAuthenticationError", "SMTPRecipientsRefused"}

\* the envelope and message that deliver the draft d
DeliveryOf(d) ==
    [from_addr |-> valves.FROM_EMAIL,
     to_addrs |-> SplitComma(d.recipients),
     msg |-> [Subject |-> d.subject, From |-> valves.FROM_EMAIL,
              To |-> d.recipients,
              parts |-> <<[subtype |-> "plain", payload |-> PlainText(d)],
                          [subtype |-> "html",
                           payload |-> HtmlContent(d)]>>]]

LastDelivered == smtp.last

\* C1: a send that fails at the transport (connect, login or sendmail)
\* leaves the staged draft as prepare stored it and as the message was built
\* from it, and returns the error text naming the failure; a later send of
\* the same draft (no prepare in between) whose transport succeeds delivers
\* that draft.
C1_RetryAfterFailure ==
    \A c \in Calls :
       frame[c].op = "send" =>
          /\ frame[c].e \in TransportFailures =>
                /\ prepared_email # None
                /\ prepared_email = hist.staged
                /\ frame[c].msg = DeliveryOf(prepared_email).msg
                /\ frame[c].pc \in {"s168", "s170", "done"}
                /\ frame[c].pc = "done" /\ SinkWorks(c) => Returned(c)
                /\ Returned(c) =>
                      /\ ResultKind(c) = "error"
                      /\ frame[c].result.fields = <<frame[c].e>>
          /\ Returned(c) /\ ResultKind(c) = "sent" /\ hist.failed =>
                /\ smtp.last # None
                /\ LastDelivered = DeliveryOf(hist.staged)

\* C1 witness: a send delivered the draft after a send of it had failed
C1_Witness ==
    \E c \in Calls :
       /\ frame[c].op = "send"
       /\ Returned(c)
       /\ ResultKind(c) = "sent"
       /\ hist.failed
       /\ hist.slot = "send"

\* C2: once a successful send or a discard has cleared the slot, the slot
\* stays empty until a prepare, and every send call in that time goes from
\* the first check to the "nothing staged" return: it builds no message,
\* reaches no transport step and returns the "nothing staged" text.
C2_ClearedDraftNeverSent ==
    /\ hist.slot \in {"send", "discard"} => prepared_email = None
    /\ \A c \in Calls :
          /\ frame[c].op = "send"
          /\ hist.slot \in {"send", "discard"}
          /\ ~(frame[c].pc = "done" /\ ResultKind(c) = "sent")
          => /\ frame[c].pc \in {"s114", "s117", "done"}
             /\ frame[c].msg = None
             /\ frame[c].e = NoExc
             /\ frame[c].pc = "done" /\ SinkWorks(c) => Returned(c)
             /\ Returned(c) => ResultKind(c) = "no_email"

\* C2 witness: a send called after a successful send reported nothing staged
C2_Witness ==
    \E c \in Calls :
       /\ frame[c].op = "send"
       /\ Returned(c)
       /\ ResultKind(c) = "no_email"
       /\ hist.slot = "send"

\* C3: when prepare has stored its draft, the slot holds exactly the draft
\* of that call (its subject, its body, its normalised recipients), whatever
\* was staged before; a successful send delivers the draft of the most
\* recent prepare and nothing else.
C3_LastPrepareWins ==
    \A c \in Calls :
       /\ frame[c].op = "prepare" /\ (frame[c].pc = "p85" \/ Returned(c)) =>
             /\ prepared_email # None
             /\ prepared_email.subject = frame[c].args.subject
             /\ prepared_email.body = frame[c].args.body
             /\ prepared_email.recipients
                  = NormalizeRecipients(frame[c].args.recipients)
             /\ prepared_email.signature \in Signatures
             /\ hist.staged = prepared_email
       /\ frame[c].op = "send"
            /\ (frame[c].pc = "s161" \/ ResultKind(c) = "sent") =>
             /\ smtp.last # None
             /\ LastDelivered.msg.Subject = hist.staged.subject
             /\ LastDelivered.msg.To = hist.staged.recipients
             /\ LastDelivered.to_addrs = SplitComma(hist.staged.recipients)
             /\ LastDelivered.msg.parts[1].payload = PlainText(hist.staged)
             /\ LastDelivered.msg.parts[2].payload = HtmlContent(hist.staged)

\* C3 witness: a draft replaced one with another subject and was delivered
C3_Witness ==
    \E c \in Calls :
       /\ frame[c].op = "send"
       /\ Returned(c)
       /\ ResultKind(c) = "sent"
       /\ hist.overwrote

LastEventText(f) == f.events[Len(f.events)].data.description.text

\* C4: the step of send that checks the preconditions, taken with an empty
\* slot and no password (None or empty), goes to the "nothing staged" return
\* (or the sink raises), notifies "No email prepared" and never the password
\* error, and the return that follows gives the "nothing staged" text.
C4_StagedCheckedFirst ==
    [][\A c \in Calls :
         /\ ( /\ frame[c].pc = "s114"
              /\ frame'[c].pc # "s114"
              /\ prepared_email = None
              /\ valves.PASSWORD \in {None, Str("")} )
            => /\ \/ frame'[c].pc = "s117"
                  \/ /\ frame[c].emitter = "flaky"
                     /\ frame'[c].pc = "done"
                     /\ frame'[c].raised = "SinkError"
               /\ frame[c].emitter # "none" =>
                     LastEventText(frame'[c]) = "Error: No email prepared"
         /\ ( frame[c].pc = "s117" /\ frame'[c].pc # "s117" )
            => /\ frame'[c].pc = "done"
               /\ frame'[c].raised = NoExc
               /\ frame'[c].result.kind = "no_email"
      ]_vars

\* C4 witness: send is at the "nothing staged" return with no password set
C4_Witness ==
    \E c \in Calls :
       /\ frame[c].op = "send"
       /\ frame[c].pc = "s117"
       /\ running = c
       /\ prepared_email = None
       /\ valves.PASSWORD = None

\* C5: the step of send that checks the preconditions, taken with a staged
\* draft and no password (None or empty), goes to the "password is not set"
\* return (or the sink raises) and the return gives that text; both steps
\* leave the slot and the transport untouched; and a send that succeeds
\* after such a refusal delivers the draft as it was staged.
C5_NoCredentialRefused ==
    [][\A c \in Calls :
         /\ ( /\ frame[c].pc = "s114"
              /\ frame'[c].pc # "s114"
              /\ prepared_email # None
              /\ valves.PASSWORD \in {None, Str("")} )
            => /\ \/ frame'[c].pc = "s122"
                  \/ /\ frame[c].emitter = "flaky"
                     /\ frame'[c].pc = "done"
                     /\ frame'[c].raised = "SinkError"
               /\ frame[c].emitter # "none" =>
                     LastEventText(frame'[c])
                       = "Error: Email password is not set"
               /\ prepared_email' = prepared_email
               /\ smtp' = smtp
         /\ ( frame[c].pc = "s122" /\ frame'[c].pc # "s122" )
            => /\ frame'[c].pc = "done"
               /\ frame'[c].raised = NoExc
               /\ frame'[c].result.kind = "no_password"
               /\ frame'[c].msg = None
               /\ prepared_email' = prepared_email
               /\ prepared_email' = hist.staged
               /\ smtp' = smtp
         /\ ( /\ frame[c].pc = "s161"
              /\ frame'[c].pc = "done"
              /\ hist.refused )
            => /\ frame'[c].result.kind = "sent"
               /\ smtp.last # None
               /\ LastDelivered = DeliveryOf(hist.staged)
      ]_vars

\* C5 witness: a draft was delivered after a send of it had been refused
\* for the missing password
C5_Witness ==
    \E c \in Calls :
       /\ frame[c].op = "send"
       /\ Returned(c)
       /\ ResultKind(c) = "sent"
       /\ hist.refused

\* what holds of a discard call in every state: once it is past the
\* clearing line the slot is empty, it returns its confirmation, and it
\* never has a message or an exception of the transport
DiscardState(c) ==
    frame[c].op = "discard" =>
       /\ frame[c].msg = None
       /\ frame[c].e = NoExc
       /\ frame[c].pc = "d187" => prepared_email = None
       /\ frame[c].pc = "done" /\ SinkWorks(c) => Returned(c)
       /\ Returned(c) =>
             /\ ResultKind(c) = "discarded"
             /\ prepared_email = None

\* C6: discard, on a staged slot or on an empty one (so also twice in a
\* row), returns its confirmation and leaves the slot empty, and no step
\* taken while it runs touches the transport.
C6_DiscardIdempotent ==
    [][\A c \in Calls :
         /\ DiscardState(c)'
         /\ frame[c].op = "discard" /\ frame[c].pc # "done" => smtp' = smtp
      ]_vars

\* C6 witness: a discard that found the slot already empty has returned
C6_Witness ==
    \E c \in Calls :
       /\ frame[c].op = "discard"
       /\ Returned(c)
       /\ hist.found_empty
       /\ hist.slot = "discard"
       /\ prepared_email = None

\* C7: no call of prepare, send or discard ends by raising: every call
\* that ends has returned a text.
C7_NeverRaises ==
    \A c \in Calls :
       frame[c].pc = "done" =>
          /\ frame[c].raised = NoExc
          /\ frame[c].result # None

\* the text is of the form YYYY-MM-DD HH:MM:SS UTC
IsTimestampText(t) ==
    LET Digits == {DigitChar[i] : i \in DOMAIN DigitChar}
        DigitAt == {1, 2, 3, 4, 6, 7, 9, 10, 12, 13, 15, 16, 18, 19}
    IN  /\ Len(t) = 23
        /\ \A i \in DigitAt : t[i] \in Digits
        /\ t[5] = "-" /\ t[8] = "-" /\ t[11] = " "
        /\ t[14] = ":" /\ t[17] = ":"
        /\ SubSeq(t, 20, 23) = <<" ", "U", "T", "C">>

\* C8: the text returned by a successful send contains the timestamp taken
\* after the transport accepted the message, as YYYY-MM-DD HH:MM:SS UTC.
C8_ResultHasTimestamp ==
    \A c \in Calls :
       frame[c].op = "send" /\ Returned(c) /\ ResultKind(c) = "sent" =>
          \E i \in DOMAIN frame[c].result.fields :
             /\ frame[c].result.fields[i] = frame[c].current_time
             /\ IsTimestampText(frame[c].result.fields[i])
             /\ frame[c].current_time = strftime(smtp.accepted_at)

\* C9 as stated: send and discard on an empty slot are no-ops that both
\* report "nothing staged".
C9_BothReportNothingStaged ==
    \A c \in Calls :
       /\ ( /\ frame[c].op = "send"
            /\ prepared_email = None
            /\ Returned(c)
            /\ ResultKind(c) # "sent" )
          => ResultKind(c) = "no_email"
       /\ ( /\ frame[c].op = "discard"
            /\ hist.found_empty
            /\ Returned(c) )
          => ResultKind(c) = "no_email"

\* C9 amended: on an empty slot send and discard are both no-ops (the slot
\* stays empty, no message is built, no transport step is reached); send
\* reports "nothing staged", discard returns its usual confirmation.
C9_EmptySlotNoOps ==
    \A c \in Calls :
       /\ ( /\ frame[c].op = "send"
            /\ prepared_email = None
            /\ ~(frame[c].pc = "done" /\ ResultKind(c) = "sent") )
          => /\ frame[c].pc \in {"s114", "s117", "done"}
             /\ frame[c].msg = None
             /\ frame[c].pc = "done" /\ SinkWorks(c) => Returned(c)
             /\ Returned(c) => ResultKind(c) = "no_email"
       /\ ( /\ frame[c].op = "discard"
            /\ hist.found_empty
            /\ frame[c].pc \in {"d187", "done"} )
          => /\ prepared_email = None
             /\ frame[c].msg = None
             /\ frame[c].pc = "done" /\ SinkWorks(c) => Returned(c)
             /\ Returned(c) => ResultKind(c) = "discarded"

\* C9 witness: a discard of an empty slot returned its confirmation
C9_Witness ==
    \E c \in Calls :
       /\ frame[c].op = "discard"
       /\ Returned(c)
       /\ ResultKind(c) = "discarded"
       /\ hist.found_empty

IsBracket(ch) == ch \in {"[", "]"}

IsQuote(ch) == ch \in {"'", "\""}

NotQuote(ch) == ~IsQuote(ch)

\* `out` is `input` without its leading and trailing brackets and without
\* any quote: input[i..j] is the part between the enclosing brackets
NormalizedAs(input, out) ==
    \E i \in 1..(Len(input) + 1), j \in 0..Len(input) :
       /\ \A k \in 1..(i - 1) : IsBracket(input[k])
       /\ \A k \in (j + 1)..Len(input) : IsBracket(input[k])
       /\ IF i <= j
          THEN ~IsBracket(input[i]) /\ ~IsBracket(input[j])
          ELSE j = i - 1
       /\ out = SelectSeq(SubSeq(input, i, j), NotQuote)

\* C10: the recipients that prepare stores and echoes are the input without
\* its enclosing brackets and without any quote character, everything else
\* kept in order; "['a', 'b']" is stored as "a, b".
C10_RecipientsNormalized ==
    \A c \in Calls :
       frame[c].op = "prepare" /\ (frame[c].pc = "p85" \/ Returned(c)) =>
          /\ NormalizedAs(frame[c].args.recipients, prepared_email.recipients)
          /\ Returned(c) =>
                frame[c].result.fields[1] = prepared_email.recipients
          /\ frame[c].args.recipients = RecipientList =>
                prepared_email.recipients = <<"a", ",", " ", "b">>

\* C10 witness: the stringified list was stored as "a, b" and echoed
C10_Witness ==
    \E c \in Calls :
       /\ frame[c].op = "prepare"
       /\ Returned(c)
       /\ frame[c].args.recipients = RecipientList
       /\ prepared_email.recipients = <<"a", ",", " ", "b">>
       /\ frame[c].result.fields[1] = <<"a", ",", " ", "b">>

\* the body with every line-break tag turned into a newline and every
\* entity decoded
BreaksAndEntitiesDecoded(body) ==
    [i \in 1..Len(body) |->
       IF body[i] = "<br>" THEN "\n" ELSE UnescapeToken(body[i])]

TwoAlternativesPlainFirst(msg) ==
    /\ Len(msg.parts) = 2
    /\ msg.parts[1].subtype = "plain"
    /\ msg.parts[2].subtype = "html"

\* C12: every message send builds, and every message the relay accepted,
\* has exactly two alternatives, the plain-text one before the HTML one,
\* with or without a signature.
C12_PlainBeforeHtml ==
    /\ \A c \in Calls :
          frame[c].msg # None => TwoAlternativesPlainFirst(frame[c].msg)
    /\ smtp.last # None => TwoAlternativesPlainFirst(smtp.last.msg)

\* C12 witness: the relay accepted a message of a draft with a signature
C12_Witness ==
    /\ smtp.accepted > 0
    /\ smtp.last # None
    /\ hist.staged # None
    /\ hist.staged.signature = "Sig"
    /\ smtp.last.msg.Subject = hist.staged.subject
    /\ Len(smtp.last.msg.parts[2].payload) > Len(hist.staged.body)

\* C13: get_translation returns the text of the first segment when the
\* reply has a non-empty translations array, and returns None, without
\* raising, when the array is empty or missing or when the request fails
\* with a URLError.
C13_FirstSegmentOrNone ==
    \A c \in Calls :
       frame[c].op = "get_translation" /\ frame[c].pc = "done" =>
          LET reply == frame[c].response
          IN  /\ ( /\ reply.kind = "json"
                   /\ reply.has_translations
                   /\ reply.translations # <<>> )
                 => /\ Returned(c)
                    /\ frame[c].result = [str |-> Head(reply.translations).text]
              /\ ( /\ reply.kind = "json"
                   /\ (~reply.has_translations \/ reply.translations = <<>>) )
                 => Returned(c) /\ frame[c].result = None
              /\ reply.kind \in {"URLError", "HTTPError"}
                 => Returned(c) /\ frame[c].result = None

\* C13 witness: a reply with an empty translations array gave None
C13_Witness ==
    \E c \in Calls :
       /\ frame[c].op = "get_translation"
       /\ Returned(c)
       /\ frame[c].response.kind = "json"
       /\ frame[c].response.has_translations
       /\ frame[c].response.translations = <<>>
       /\ frame[c].result = None

IsTerminal(ev) == ev.data.done /\ ev.data.status \in {"complete", "error"}

\* C14: a finished call of prepare, send or discard that had a sink handed
\* it an in_progress notification first and exactly one terminal
\* notification (complete or error, done = true), which is the last one.
C14_InProgressThenOneTerminal ==
    \A c \in Calls :
       ( /\ frame[c].op \in {"prepare", "send", "discard"}
         /\ frame[c].emitter # "none"
         /\ frame[c].pc = "done" )
       => LET evs == frame[c].events
          IN  /\ evs # <<>>
              /\ Head(evs).data.status = "in_progress"
              /\ ~Head(evs).data.done
              /\ IsTerminal(evs[Len(evs)])
              /\ \A i \in 1..(Len(evs) - 1) : ~evs[i].data.done

Occurrences(seq, x) == Cardinality({i \in 1..Len(seq) : seq[i] = x})

\* the payload is as long as the body, plus a separator and the signature
\* once at its end when there is a signature
SignedOnce(payload, body, signature) ==
    IF signature = ""
    THEN Len(payload) = Len(body)
    ELSE /\ Len(payload) = Len(body) + 2
         /\ payload[Len(payload)] = signature
         /\ Occurrences(payload, signature) = 1

\* C15: a staged draft changes only when a prepare stores a draft (with the
\* signature configured at that moment), when a send clears it after the
\* relay accepted it, or when a discard clears it; a configuration change
\* leaves it alone; and the message the relay accepts carries, once per
\* alternative, the signature the draft was staged with, also after failed
\* sends and a changed configuration.
C15_StagedReadOnly ==
    [][ /\ ( prepared_email # None /\ prepared_email' # prepared_email )
           => \E c \in Calls :
                 \/ /\ frame[c].op = "prepare"
                    /\ frame[c].pc = "p72"
                    /\ frame'[c].pc # "p72"
                 \/ /\ frame[c].op = "send"
                    /\ frame[c].pc = "s161"
                    /\ smtp.accepted > 0
                    /\ prepared_email' = None
                 \/ /\ frame[c].op = "discard"
                    /\ frame[c].pc = "d182"
                    /\ prepared_email' = None
        /\ ( prepared_email' # None /\ prepared_email' # prepared_email )
           => prepared_email'.signature = valves.EMAIL_SIGNATURE
        /\ valves' # valves => prepared_email' = prepared_email
        /\ smtp'.accepted > smtp.accepted
           => /\ prepared_email' = prepared_email
              /\ prepared_email = hist.staged
              /\ \A i \in 1..2 :
                    SignedOnce(smtp'.last.msg.parts[i].payload,
                               hist.staged.body, hist.staged.signature)
      ]_vars

\* C15 witness: the relay accepted the draft after a failed send, and the
\* signature configured now is not the one the draft was staged with
C15_Witness ==
    \E c \in Calls :
       /\ frame[c].op = "send"
       /\ frame[c].pc = "s161"
       /\ hist.failed
       /\ prepared_email # None
       /\ prepared_email.signature = "Sig"
       /\ valves.EMAIL_SIGNATURE # prepared_email.signature
       /\ smtp.last # None
       /\ smtp.last.msg.Subject = prepared_email.subject

\* the relay accepted the message inside the send call of frame c: sendmail
\* returned, and then either the timestamp was taken or QUIT failed
AcceptedInCall(c) ==
    /\ frame[c].op = "send"
    /\ frame[c].current_time # <<>> \/ frame[c].e = "SMTPResponseException"

\* C16: a send call in which the relay accepted the message ends with the
\* slot empty and the success text, whatever the sink does with the
\* success notification.
C16_AcceptedMeansCleared ==
    \A c \in Calls :
       AcceptedInCall(c) /\ frame[c].pc = "done" =>
          /\ Returned(c)
          /\ ResultKind(c) = "sent"
          /\ prepared_email = None

\* C17: with a prepare call interleaved at the awaits of a send call, the
\* envelope the relay accepts lists the recipients of the draft the
\* message was built from, and a draft that send clears is the one the
\* relay accepted.
C17_OneDraftPerSend ==
    [][ /\ smtp'.accepted > smtp.accepted
           => smtp'.last.to_addrs = SplitComma(smtp'.last.msg.To)
        /\ ( /\ prepared_email # None
             /\ prepared_email' = None
             /\ frame[Sender].op = "send"
             /\ frame[Sender].pc = "s161" )
           => /\ smtp.last # None
              /\ smtp.last.msg.Subject = prepared_email.subject
              /\ smtp.last.msg.To = prepared_email.recipients
      ]_vars

====
